---- MODULE Spec2Model ----
(***************************************************************************)
(* VaultBoard: the entry routes (/api/entries, /api/entries/[id],          *)
(* /api/entries/[id]/export), the access-control function                  *)
(* checkEntryAccess and the conditional encryption of entry content.       *)
(*                                                                         *)
(* The entry store is the managed backend the routes call through the      *)
(* Supabase client: a table of rows keyed by id.  Timestamps, titles,      *)
(* tags and categories are left out of a row: no modelled decision reads   *)
(* them.  An access-log record keeps entry_id, accessed_by and action;     *)
(* the rows getAccessStats reads keep accessed_at as well.                 *)
(*                                                                         *)
(* The store answers an authenticated session with any row it asks for:    *)
(* the SQL scripts of the repository install row policies on user_roles    *)
(* only.  (The README setup script also lists owner-only policies on       *)
(* knowledge_entries; the admin branch of DELETE, the role matrices and    *)
(* the access-log route all presuppose a store without them.)              *)
(*                                                                         *)
(* Spec       : the routes, from an empty store, the secret configured.    *)
(* SpecAccess : checkEntryAccess and getAccessibleEntries, any stored entry.*)
(* SpecCrypto : the encryption functions, over any environment and text.   *)
(* SpecKey    : GET, PUT and export of a stored entry, in any environment. *)
(* SpecMask   : maskSensitiveContent, over any content.                    *)
(* SpecStats  : getAccessStats, over any access_logs and answer order.     *)
(* SpecExpiry : the expiration classifier at its three call sites.         *)
(* SpecAccessLog  : GET /api/entries/[id]/access, over any roles and logs. *)
(* SpecMiddleware : the request middleware, over any path and session.     *)
(* SpecSweep  : the daily cron sweep, over any dated entry and clock.      *)
(***************************************************************************)
EXTENDS Integers, Sequences, FiniteSets, TLC

\* ---------------------------------------------------------------- bounds
MaxEntries == 1
MaxLogs == 1
MaxLayers == 2
MaxContentLen == 10
MaxStatRows == 2
MaxTime == 2
MaxDays == 16
MaxPathLen == 3

\* ------------------------------------------------------------- universes
Users == {"u1", "u2"}
Anonymous == "anonymous"
Requesters == Users \cup {Anonymous}
EntryIds == 1..MaxEntries

UserRoles == {"admin", "manager", "member", "viewer"}
NoRole == "none"
\* "guest" stands for a stored role string outside the UserRole type:
\* getUserRole returns data.role under an unchecked cast.
StoredRoles == UserRoles \cup {"guest", NoRole}

Classifications == {"public", "internal", "confidential", "restricted"}
\* "export" stands for an action string outside 'view' | 'edit' | 'delete'.
Actions == {"view", "edit", "delete", "export"}
Formats == {"json", "txt", "pdf"}

\* process.env: ENCRYPTION_SECRET_KEY (unset or a key) and NODE_ENV.
\* garble tells what CryptoJS makes of a text the key did not produce:
\* bytes that are a non-empty UTF-8 string (TRUE) or are not (FALSE).
Keys == {"k1", "k2"}
NoKey == "unset"
FallbackKey == "dev-fallback-key-32chars-long!"
KeyError == "ENCRYPTION_SECRET_KEY must be set in production environment"
Envs == [secret : Keys \cup {NoKey}, production : BOOLEAN, garble : BOOLEAN]
DeployedEnv == [secret |-> "k1", production |-> TRUE, garble |-> FALSE]

\* A text is a body under the keys of its AES layers, innermost first
\* (no layer = the body itself).
Plaintexts == {"secret123456"}
Plain(b) == [body |-> b, layers |-> << >>]
ClientTexts == {Plain(b) : b \in Plaintexts}
\* The strings handed to the encryption functions: the empty string, a
\* password, a short and a long string of the base64 alphabet, and what
\* CryptoJS makes of each of them under up to MaxLayers keys.
CryptoBodies ==
  {"", "secret123456", "QUJD", "QUJDREVGR0hJSktMTU5PUFFSU1RVVldYWVphYmNkZWY="}
LayerStacks ==
  UNION {[1..n -> Keys \cup {FallbackKey}] : n \in 0..MaxLayers}
CryptoTexts == {[body |-> b, layers |-> l] : b \in CryptoBodies, l \in LayerStacks}

\* ------------------------------------------------------------------ state
VARIABLES roleOf, entries, logs, last, env
vars == <<roleOf, entries, logs, last, env>>

\* ------------------------------------------------- lib/utils/encryption.ts
\* What a call hands back: a value, or an exception.
Return(v) == [raised |-> FALSE, value |-> v]
Throw == [raised |-> TRUE, value |-> Plain("")]

getEncryptionKey ==
  IF env.secret # NoKey THEN env.secret
  ELSE IF env.production THEN KeyError
  ELSE FallbackKey

\* The string a text is: '' is the only falsy one.
isEmpty(t) == t.body = "" /\ t.layers = << >>
\* Bodies made of the base64 alphabet with at most two '=' at the end.
Base64Bodies == {"QUJD", "QUJDREVGR0hJSktMTU5PUFFSU1RVVldYWVphYmNkZWY="}
\* CryptoJS.AES.encrypt(text, passphrase).toString(): base64 of
\* 'Salted__', 8 bytes of salt and the PKCS7-padded blocks.
CipherLength(n) == 4 * ((16 + 16 * (n \div 16 + 1) + 2) \div 3)
RECURSIVE TextLength(_)
TextLength(t) ==
  IF t.layers = << >> THEN Len(t.body)
  ELSE CipherLength(TextLength([t EXCEPT !.layers = SubSeq(@, 1, Len(@) - 1)]))
matchesBase64Pattern(t) == t.layers # << >> \/ t.body \in Base64Bodies
Garbled == Plain("?#")

encryptText(plainText) ==
  IF isEmpty(plainText) THEN Return(Plain(""))
  ELSE IF getEncryptionKey = KeyError THEN Throw
  ELSE Return([plainText EXCEPT !.layers = Append(@, getEncryptionKey)])

decryptText(encryptedText) ==
  IF isEmpty(encryptedText) THEN Return(Plain(""))
  ELSE IF getEncryptionKey = KeyError THEN Throw
  ELSE LET n == Len(encryptedText.layers) IN
    IF n > 0 /\ encryptedText.layers[n] = getEncryptionKey
    THEN LET plainText == [encryptedText EXCEPT !.layers = SubSeq(@, 1, n - 1)] IN
         IF isEmpty(plainText) THEN Throw ELSE Return(plainText)
    ELSE IF env.garble THEN Return(Garbled) ELSE Throw

\* Mutant: the length threshold above the shortest ciphertext.
isEncrypted_Threshold50(text) ==
  IF isEmpty(text) THEN FALSE
  ELSE matchesBase64Pattern(text) /\ TextLength(text) > 50

isEncrypted(text) ==
  IF isEmpty(text) THEN FALSE
  ELSE matchesBase64Pattern(text) /\ TextLength(text) > 40

\* Mutant: the flag is ignored.
conditionalEncrypt_IgnoresFlag(text, isSensitive) ==
  encryptText(text)

conditionalEncrypt(text, isSensitive) ==
  IF ~isSensitive THEN Return(text) ELSE encryptText(text)

\* Mutant: no catch around decryptText.
conditionalDecrypt_NoCatch(text, isSensitive) ==
  IF ~isSensitive THEN Return(text)
  ELSE IF ~isEncrypted(text) THEN Return(text)
  ELSE decryptText(text)

conditionalDecrypt(text, isSensitive) ==
  IF ~isSensitive THEN Return(text)
  ELSE IF ~isEncrypted(text) THEN Return(text)
  ELSE IF decryptText(text).raised THEN Return(text)
  ELSE decryptText(text)

\* -------------------------------------------------------- lib/api/entries.ts
\* A content as the string of its characters.
MaskAlphabet == {"a", "b"}
Contents == UNION {[1..n -> MaskAlphabet] : n \in 0..MaxContentLen}
Repeat(c, n) == [i \in 1..n |-> c]
Min(a, b) == IF a < b THEN a ELSE b

maskSensitiveContent(content) ==
  IF Len(content) <= 8 THEN <<"*", "*", "*", "*">>
  ELSE LET first4 == SubSeq(content, 1, 4)
           last4 == SubSeq(content, Len(content) - 3, Len(content))
           masked == Repeat("*", Min(Len(content) - 8, 20))
       IN first4 \o masked \o last4

\* --------------------------------------------------------- lib/api/logs.ts
\* A row of access_logs as getAccessStats reads it.
AccessActions == {"view", "create", "update", "delete", "export"}
Null == "null"
AccessLog(e, by, action, at) ==
  [entry_id |-> e, accessed_by |-> by, action |-> action, accessed_at |-> at]
StatRows ==
  {AccessLog(e, by, action, at) :
     e \in EntryIds, by \in Users \cup {Null}, action \in AccessActions, at \in 1..MaxTime}

ZeroStats ==
  [total_views |-> 0, total_updates |-> 0, total_exports |-> 0,
   last_accessed_at |-> Null, most_accessed_by |-> Null, unique_users |-> 0]

CountAction(rows, action) == Cardinality({i \in 1..Len(rows) : rows[i].action = action})

\* getAccessStats on the rows the query returned, in the order returned.
getAccessStats(rows, error) ==
  IF error THEN ZeroStats
  ELSE IF Len(rows) = 0 THEN ZeroStats
  ELSE
    LET userCount(u) == Cardinality({i \in 1..Len(rows) : rows[i].accessed_by = u})
        counted == {i \in 1..Len(rows) : rows[i].accessed_by # Null}
        \* sort by count, descending and stable: the first key of the
        \* greatest count, keys in the order of their first row
        top == {i \in counted :
                  \A j \in counted :
                    \/ userCount(rows[j].accessed_by) < userCount(rows[i].accessed_by)
                    \/ /\ userCount(rows[j].accessed_by) = userCount(rows[i].accessed_by)
                       /\ i <= j}
    IN [total_views |-> CountAction(rows, "view"),
        total_updates |-> CountAction(rows, "update"),
        total_exports |-> CountAction(rows, "export"),
        last_accessed_at |-> rows[1].accessed_at,
        most_accessed_by |-> IF counted = {} THEN Null
                             ELSE rows[CHOOSE i \in top : TRUE].accessed_by,
        unique_users |-> Cardinality({rows[i].accessed_by : i \in counted})]

\* ------------------------------------------------- expiration classifier
\* Times are milliseconds, as Date.getTime() gives them.
DayMs == 86400000
Nows == {2 * DayMs, 2 * DayMs + 1}
Expirations == {k * DayMs + d : k \in 0..(MaxDays + 2), d \in {-1, 0, 1}}

\* Mutant: Math.floor in place of Math.ceil.
daysUntilExpiration_Floor(expiration, now) ==
  (expiration - now) \div DayMs

\* Math.ceil((expirationDate.getTime() - now.getTime()) / (1000*60*60*24))
daysUntilExpiration(expiration, now) ==
  -((now - expiration) \div DayMs)

\* GET /api/entries/expiring, lines 59-68
expiringStatus(days) ==
  IF days < 0 THEN "expired"
  ELSE IF days <= 7 THEN "critical"
  ELSE IF days <= 14 THEN "warning"
  ELSE "notice"

\* GET /api/cron/check-expiring, lines 59-65: the list the entry is pushed to.
cronBucket(days) ==
  IF days < 0 THEN "expired"
  ELSE IF days <= 7 THEN "critical"
  ELSE IF days <= 14 THEN "warning"
  ELSE "none"

\* EntryCard getExpirationStatus: the badge, null beyond 14 days.
getExpirationStatus(days) ==
  IF days < 0 THEN "expired"
  ELSE IF days <= 7 THEN "critical"
  ELSE IF days <= 14 THEN "warning"
  ELSE "none"

\* ------------------------------------------------------ lib/api/access.ts
PERMISSION_MATRIX ==
  [admin   |-> [canCreate |-> TRUE,  canEdit |-> TRUE,  canDelete |-> TRUE,  canViewSensitive |-> TRUE],
   manager |-> [canCreate |-> TRUE,  canEdit |-> TRUE,  canDelete |-> FALSE, canViewSensitive |-> TRUE],
   member  |-> [canCreate |-> TRUE,  canEdit |-> FALSE, canDelete |-> FALSE, canViewSensitive |-> FALSE],
   viewer  |-> [canCreate |-> FALSE, canEdit |-> FALSE, canDelete |-> FALSE, canViewSensitive |-> FALSE]]

\* Mutant: the viewer row of the README table (no 'internal').
CLASSIFICATION_ACCESS_ViewerPublicOnly ==
  [admin   |-> {"public", "internal", "confidential", "restricted"},
   manager |-> {"public", "internal", "confidential"},
   member  |-> {"public", "internal"},
   viewer  |-> {"public"}]

CLASSIFICATION_ACCESS ==
  [admin   |-> {"public", "internal", "confidential", "restricted"},
   manager |-> {"public", "internal", "confidential"},
   member  |-> {"public", "internal"},
   viewer  |-> {"public", "internal"}]

getUserRole(u) == IF u \in Users THEN roleOf[u] ELSE NoRole

\* Mutant: the classification gate is skipped for edit and delete.
checkEntryAccess_GateOnlyView(e, u, a) ==
  LET userRole == getUserRole(u) IN
  IF userRole = NoRole THEN FALSE
  ELSE IF e \notin DOMAIN entries THEN FALSE
  ELSE LET entry == entries[e] IN
    IF entry.user_id = u
    THEN IF a = "delete" THEN userRole = "admin" \/ entry.user_id = u
         ELSE TRUE
    ELSE IF userRole \notin UserRoles THEN FALSE
    ELSE LET permissions == PERMISSION_MATRIX[userRole] IN
      IF a = "view"
      THEN /\ entry.classification \in CLASSIFICATION_ACCESS[userRole]
           /\ ~(entry.is_sensitive /\ ~permissions.canViewSensitive)
      ELSE IF a = "edit"
      THEN permissions.canEdit \/ entry.user_id = u
      ELSE IF a = "delete"
      THEN permissions.canDelete \/ (entry.user_id = u /\ userRole # "viewer")
      ELSE FALSE

\* Mutant: the owner's delete is decided by the role alone.
checkEntryAccess_OwnerDeleteByRole(e, u, a) ==
  LET userRole == getUserRole(u) IN
  IF userRole = NoRole THEN FALSE
  ELSE IF e \notin DOMAIN entries THEN FALSE
  ELSE LET entry == entries[e] IN
    IF entry.user_id = u
    THEN IF a = "delete" THEN userRole = "admin"
         ELSE TRUE
    ELSE IF userRole \notin UserRoles THEN FALSE
    ELSE IF entry.classification \notin CLASSIFICATION_ACCESS[userRole] THEN FALSE
    ELSE LET permissions == PERMISSION_MATRIX[userRole] IN
      IF a = "view"
      THEN ~(entry.is_sensitive /\ ~permissions.canViewSensitive)
      ELSE IF a = "edit"
      THEN permissions.canEdit \/ entry.user_id = u
      ELSE IF a = "delete"
      THEN permissions.canDelete \/ (entry.user_id = u /\ userRole # "viewer")
      ELSE FALSE

\* checkEntryAccess(entryId, userId, action): TRUE = allow, FALSE = deny.
\* A role outside the matrices makes the lookup undefined and the
\* .includes call throw; the catch block returns false.
checkEntryAccess(e, u, a) ==
  LET userRole == getUserRole(u) IN
  IF userRole = NoRole THEN FALSE
  ELSE IF e \notin DOMAIN entries THEN FALSE
  ELSE LET entry == entries[e] IN
    IF entry.user_id = u
    THEN IF a = "delete" THEN userRole = "admin" \/ entry.user_id = u
         ELSE TRUE
    ELSE IF userRole \notin UserRoles THEN FALSE
    ELSE IF entry.classification \notin CLASSIFICATION_ACCESS[userRole] THEN FALSE
    ELSE LET permissions == PERMISSION_MATRIX[userRole] IN
      IF a = "view"
      THEN ~(entry.is_sensitive /\ ~permissions.canViewSensitive)
      ELSE IF a = "edit"
      THEN permissions.canEdit \/ entry.user_id = u
      ELSE IF a = "delete"
      THEN permissions.canDelete \/ (entry.user_id = u /\ userRole # "viewer")
      ELSE FALSE

\* -------------------------------------------------------------- responses
NoBody == << >>
Response(op, u, e, a, status, allow, body) ==
  [op |-> op, user |-> u, entry |-> e, action |-> a,
   status |-> status, allow |-> allow, body |-> body]

LogRecord(e, u, a) == [entry_id |-> e, accessed_by |-> u, action |-> a]

Init ==
  /\ roleOf \in [Users -> StoredRoles]
  /\ entries = << >>
  /\ logs = << >>
  /\ last = Response("none", Anonymous, 0, "none", 0, FALSE, NoBody)
  /\ env = DeployedEnv

\* ------------------------------------------------------------ the store
Present(e) == e \in DOMAIN entries
FreeIds == EntryIds \ DOMAIN entries
Row(u, cls, sens, c) ==
  [user_id |-> u, classification |-> cls, is_sensitive |-> sens, content |-> c]
Insert(e, row) == [x \in DOMAIN entries \cup {e} |-> IF x = e THEN row ELSE entries[x]]
Remove(e) == [x \in DOMAIN entries \ {e} |-> entries[x]]
\* access_logs.entry_id REFERENCES knowledge_entries(id) ON DELETE CASCADE
Cascade(e) == SelectSeq(logs, LAMBDA r : r.entry_id # e)
\* supabase.from('access_logs').insert(...): the result is not inspected.
\* The insert is lost when the store fails it, with an error in the
\* result (fault "log") or with an exception out of the awaited call
\* (fault "throw").  The log is kept to MaxLogs records: a request that
\* would add one more is taken only with the insert failing.
LogFaults == {"log", "throw"}
InsertLog(fault, e, u, a) ==
  IF fault \in LogFaults THEN logs ELSE Append(logs, LogRecord(e, u, a))
CanLog(fault) == fault \in LogFaults \/ Len(logs) < MaxLogs

\* A PUT body: the fields it carries (has) and their values.
BodyFields == {"content", "is_sensitive", "classification"}
BodyClassifications == {"public", "restricted"}
Bodies ==
  {b \in [has : SUBSET BodyFields, content : ClientTexts,
          is_sensitive : BOOLEAN, classification : BodyClassifications] :
     /\ "content" \notin b.has => b.content = Plain("secret123456")
     /\ "is_sensitive" \notin b.has => b.is_sensitive = FALSE
     /\ "classification" \notin b.has => b.classification = "public"}

\* What the backend may do to one request: nothing, fail the first read
\* of knowledge_entries ("fetch"), fail its write ("store"), or fail the
\* access_logs insert ("log", "throw").
Faults == {"none", "fetch", "store", "log", "throw"}

Unauthorized(op, e) ==
  /\ last' = Response(op, Anonymous, e, "none", 401, FALSE, NoBody)
  /\ UNCHANGED <<roleOf, entries, logs, env>>

\* checkEntryAccess called for (entry, user, action); reads only.
CheckAccess(u, e, a) ==
  /\ last' = Response("checkEntryAccess", u, e, a, 0, checkEntryAccess(e, u, a), NoBody)
  /\ UNCHANGED <<roleOf, entries, logs, env>>

\* POST /api/entries
POST(u, c, cls, sens, fieldsOk, fault) ==
  IF u = Anonymous THEN Unauthorized("POST", 0)
  ELSE IF ~fieldsOk \/ cls \notin Classifications
  THEN /\ last' = Response("POST", u, 0, "none", 400, FALSE, NoBody)
       /\ UNCHANGED <<roleOf, entries, logs, env>>
  ELSE IF fault = "store"
  THEN /\ last' = Response("POST", u, 0, "none", 500, FALSE, NoBody)
       /\ UNCHANGED <<roleOf, entries, logs, env>>
  ELSE \E e \in FreeIds :
       /\ entries' = Insert(e, Row(u, cls, sens, c))
       /\ last' = Response("POST", u, e, "none", 201, FALSE, e :> c)
       /\ UNCHANGED <<roleOf, logs, env>>

\* GET /api/entries/[id]
GET(u, e, fault) ==
  IF u = Anonymous THEN Unauthorized("GET", e)
  ELSE IF ~Present(e) \/ fault = "fetch"
  THEN /\ last' = Response("GET", u, e, "none", IF fault = "fetch" THEN 500 ELSE 404, FALSE, NoBody)
       /\ UNCHANGED <<roleOf, entries, logs, env>>
  ELSE LET data == entries[e]
           content == IF data.is_sensitive
                      THEN conditionalDecrypt(data.content, data.is_sensitive).value
                      ELSE data.content
       IN /\ last' = Response("GET", u, e, "none", 200, FALSE, e :> content)
          /\ UNCHANGED <<roleOf, entries, logs, env>>

\* PUT /api/entries/[id]
PUT(u, e, body, fault) ==
  IF u = Anonymous THEN Unauthorized("PUT", e)
  ELSE
    LET content == IF /\ "content" \in body.has /\ ~isEmpty(body.content)
                      /\ "is_sensitive" \in body.has /\ body.is_sensitive
                   THEN conditionalEncrypt(body.content, body.is_sensitive)
                   ELSE Return(body.content)
    IN
    IF content.raised \/ ~Present(e) \/ fault = "store"
    THEN /\ last' = Response("PUT", u, e, "none", 500, FALSE, NoBody)
         /\ UNCHANGED <<roleOf, entries, logs, env>>
    ELSE LET old == entries[e]
             data == [user_id |-> old.user_id,
                      classification |-> IF "classification" \in body.has
                                         THEN body.classification ELSE old.classification,
                      is_sensitive |-> IF "is_sensitive" \in body.has
                                       THEN body.is_sensitive ELSE old.is_sensitive,
                      content |-> IF "content" \in body.has THEN content.value ELSE old.content]
         IN /\ CanLog(fault)
            /\ entries' = [entries EXCEPT ![e] = data]
            /\ logs' = InsertLog(fault, e, u, "update")
            /\ last' = IF fault = "throw"
                       THEN Response("PUT", u, e, "none", 500, FALSE, NoBody)
                       ELSE Response("PUT", u, e, "none", 200, FALSE, e :> data.content)
            /\ UNCHANGED <<roleOf, env>>

\* Mutant: the route deletes without the creator-or-admin check.
DELETE_NoPermissionCheck(u, e, fault) ==
  IF u = Anonymous THEN Unauthorized("DELETE", e)
  ELSE
    IF ~Present(e) \/ fault = "fetch"
    THEN /\ last' = Response("DELETE", u, e, "none", 404, FALSE, NoBody)
         /\ UNCHANGED <<roleOf, entries, logs, env>>
    ELSE IF fault = "throw"
    THEN /\ last' = Response("DELETE", u, e, "none", 500, FALSE, NoBody)
         /\ UNCHANGED <<roleOf, entries, logs, env>>
    ELSE IF fault = "store"
    THEN /\ CanLog(fault)
         /\ logs' = InsertLog(fault, e, u, "delete")
         /\ last' = Response("DELETE", u, e, "none", 500, FALSE, NoBody)
         /\ UNCHANGED <<roleOf, entries, env>>
    ELSE /\ entries' = Remove(e)
         /\ logs' = Cascade(e)
         /\ last' = Response("DELETE", u, e, "none", 200, FALSE, NoBody)
         /\ UNCHANGED <<roleOf, env>>

\* DELETE /api/entries/[id]
DELETE(u, e, fault) ==
  IF u = Anonymous THEN Unauthorized("DELETE", e)
  ELSE
    LET userRole == getUserRole(u) IN
    IF ~Present(e) \/ fault = "fetch"
    THEN /\ last' = Response("DELETE", u, e, "none", 404, FALSE, NoBody)
         /\ UNCHANGED <<roleOf, entries, logs, env>>
    ELSE IF entries[e].user_id # u /\ userRole # "admin"
    THEN /\ last' = Response("DELETE", u, e, "none", 403, FALSE, NoBody)
         /\ UNCHANGED <<roleOf, entries, logs, env>>
    ELSE IF fault = "throw"
    THEN /\ last' = Response("DELETE", u, e, "none", 500, FALSE, NoBody)
         /\ UNCHANGED <<roleOf, entries, logs, env>>
    ELSE IF fault = "store"
    THEN /\ CanLog(fault)
         /\ logs' = InsertLog(fault, e, u, "delete")
         /\ last' = Response("DELETE", u, e, "none", 500, FALSE, NoBody)
         /\ UNCHANGED <<roleOf, entries, env>>
    ELSE /\ entries' = Remove(e)
         /\ logs' = Cascade(e)
         /\ last' = Response("DELETE", u, e, "none", 200, FALSE, NoBody)
         /\ UNCHANGED <<roleOf, env>>

\* GET /api/entries/[id]/export
EXPORT(u, e, format, fault) ==
  IF u = Anonymous THEN Unauthorized("EXPORT", e)
  ELSE IF ~Present(e) \/ fault = "fetch"
  THEN /\ last' = Response("EXPORT", u, e, "none", 404, FALSE, NoBody)
       /\ UNCHANGED <<roleOf, entries, logs, env>>
  ELSE LET entry == entries[e]
           decryptedContent == IF entry.is_sensitive
                               THEN conditionalDecrypt(entry.content, entry.is_sensitive).value
                               ELSE entry.content
       IN /\ CanLog(fault)
          /\ logs' = InsertLog(fault, e, u, "export")
          /\ last' = IF fault = "throw"
                     THEN Response("EXPORT", u, e, "none", 500, FALSE, NoBody)
                     ELSE IF format \in {"json", "txt"}
                     THEN Response("EXPORT", u, e, "none", 200, FALSE, e :> decryptedContent)
                     ELSE Response("EXPORT", u, e, "none", 400, FALSE, NoBody)
          /\ UNCHANGED <<roleOf, entries, env>>

\* A request without a session never reads its other inputs.
DefaultBody ==
  [has |-> {}, content |-> Plain("secret123456"), is_sensitive |-> FALSE, classification |-> "public"]

Next ==
  \/ \E u \in Users, c \in ClientTexts, cls \in Classifications, sens \in BOOLEAN,
        fault \in {"none", "store"} : POST(u, c, cls, sens, TRUE, fault)
  \/ \E u \in Users, c \in ClientTexts : POST(u, c, "bogus", FALSE, TRUE, "none")
  \/ \E u \in Users, c \in ClientTexts : POST(u, c, "public", FALSE, FALSE, "none")
  \/ POST(Anonymous, Plain("secret123456"), "public", FALSE, TRUE, "none")
  \/ \E u \in Users, e \in EntryIds, fault \in {"none", "fetch"} : GET(u, e, fault)
  \/ \E e \in EntryIds : GET(Anonymous, e, "none")
  \/ \E u \in Users, e \in EntryIds, body \in Bodies, fault \in {"none", "log"} :
        PUT(u, e, body, fault)
  \/ \E u \in Users, e \in EntryIds, fault \in {"store", "throw"} :
        PUT(u, e, DefaultBody, fault)
  \/ \E e \in EntryIds : PUT(Anonymous, e, DefaultBody, "none")
  \/ \E u \in Users, e \in EntryIds, fault \in Faults : DELETE(u, e, fault)
  \/ \E e \in EntryIds : DELETE(Anonymous, e, "none")
  \/ \E u \in Users, e \in EntryIds, format \in Formats, fault \in {"none", "log"} :
        EXPORT(u, e, format, fault)
  \/ \E u \in Users, e \in EntryIds, fault \in {"fetch", "throw"} :
        EXPORT(u, e, "json", fault)
  \/ \E e \in EntryIds : EXPORT(Anonymous, e, "json", "none")

Spec == Init /\ [][Next]_vars

\* The policy function on its own: any roles, any stored entry.
InitAccess ==
  /\ env = DeployedEnv
  /\ roleOf \in [Users -> StoredRoles]
  /\ \/ entries = << >>
     \/ \E e \in EntryIds, u \in Users, cls \in Classifications, sens \in BOOLEAN :
          entries = e :> Row(u, cls, sens, IF sens THEN encryptText(Plain("secret123456")).value
                                          ELSE Plain("secret123456"))
  /\ logs = << >>
  /\ last = Response("none", Anonymous, 0, "none", 0, FALSE, NoBody)

\* getAccessibleEntries(userId, role): the ids the query selects.  userId
\* takes no part in the query.
getAccessibleEntries(userId, role, error) ==
  LET allowedClassifications == CLASSIFICATION_ACCESS[role]
      permissions == PERMISSION_MATRIX[role]
  IN IF error THEN {}
     ELSE {e \in DOMAIN entries :
             /\ entries[e].classification \in allowedClassifications
             /\ (~permissions.canViewSensitive => ~entries[e].is_sensitive)}

ListAccessible(u, role, error) ==
  /\ last' = [op |-> "getAccessibleEntries", user |-> u, role |-> role,
               error |-> error, ids |-> getAccessibleEntries(u, role, error)]
  /\ UNCHANGED <<roleOf, entries, logs, env>>

NextAccess ==
  \/ \E u \in Users, e \in EntryIds, a \in Actions : CheckAccess(u, e, a)
  \/ \E u \in Users, role \in UserRoles, error \in BOOLEAN : ListAccessible(u, role, error)

SpecAccess == InitAccess /\ [][NextAccess]_vars

\* ------------------------------------------------------------ middleware
\* A pathname is the sequence of its segments: << >> is "/".
PathSegments ==
  {"dashboard", "entries", "api", "auth", "login", "signup", "callback",
   "cron", "check-expiring", "1", "logo.png", "_next", "static"}
Paths == UNION {[1..n -> PathSegments] : n \in 0..MaxPathLen}
ImageFiles == {"logo.png"}
LoginPath == <<"auth", "login">>
SignupPath == <<"auth", "signup">>
DashboardPath == <<"dashboard">>
CronPath == <<"api", "cron", "check-expiring">>

publicRoutes == {LoginPath, SignupPath, <<"auth", "callback">>}
protectedRoutes == {<<"dashboard">>, <<"entries">>, <<"api">>}

\* path === route || path.startsWith(route + '/'); no listed route ends in
\* '/*', so the wildcard branch is never taken.
matchesRoute(path, routes) ==
  \E route \in routes :
    \/ path = route
    \/ Len(path) > Len(route) /\ SubSeq(path, 1, Len(route)) = route

\* config.matcher: the paths the middleware runs on.
matcher(path) ==
  ~ \/ Len(path) >= 2 /\ path[1] = "_next" /\ path[2] \in {"static", "image"}
    \/ Len(path) >= 1 /\ path[1] = "favicon.ico"
    \/ Len(path) >= 1 /\ path[Len(path)] \in ImageFiles

PassOn == [kind |-> "handler", location |-> << >>, redirect |-> {}]
RedirectTo(location, redirect) ==
  [kind |-> "redirect", location |-> location, redirect |-> redirect]

middleware(pathname, user) ==
  IF matchesRoute(pathname, publicRoutes)
  THEN IF user # Anonymous /\ pathname \in {LoginPath, SignupPath}
       THEN RedirectTo(DashboardPath, {})
       ELSE PassOn
  ELSE IF matchesRoute(pathname, protectedRoutes)
  THEN IF user = Anonymous THEN RedirectTo(LoginPath, {pathname}) ELSE PassOn
  ELSE IF pathname = << >>
  THEN IF user # Anonymous THEN RedirectTo(DashboardPath, {}) ELSE RedirectTo(LoginPath, {})
  ELSE PassOn

\* The Authorization header of a request: absent, or a bearer token.
CRON_SECRET == "cron-secret"
Bearer(token) == [scheme |-> "Bearer", token |-> token]
Authorizations == {{}} \cup {{Bearer(t)} : t \in {CRON_SECRET, "other"}}

\* A request in flight, and the request once the middleware has answered.
Arrival(pathname, user, authorization) ==
  [op |-> "arrive", path |-> pathname, user |-> user, authorization |-> authorization]

\* The middleware runs if the matcher selects the path, and the request
\* goes on to the page or route handler unless the middleware redirects.
Request(pathname, user, authorization) ==
  /\ last = Arrival(pathname, user, authorization)
  /\ LET answer == IF matcher(pathname) THEN middleware(pathname, user) ELSE PassOn
     IN last' = [op |-> "request", path |-> pathname, user |-> user,
                 authorization |-> authorization, kind |-> answer.kind,
                 location |-> answer.location, redirect |-> answer.redirect]
  /\ UNCHANGED <<roleOf, entries, logs, env>>

\* Any request: any path, with or without a session, any Authorization.
InitMiddleware ==
  /\ env = DeployedEnv
  /\ roleOf = [u \in Users |-> "member"]
  /\ entries = << >>
  /\ logs = << >>
  /\ \E pathname \in Paths, user \in Requesters, authorization \in Authorizations :
       last = Arrival(pathname, user, authorization)

NextMiddleware ==
  /\ last.op = "arrive"
  /\ Request(last.path, last.user, last.authorization)

SpecMiddleware == InitMiddleware /\ [][NextMiddleware]_vars

\* The encryption functions on their own: any environment, any text.
Outcome(op, text, isSensitive, result) ==
  [op |-> op, input |-> text, sensitive |-> isSensitive,
   raised |-> result.raised, output |-> result.value]

Protect(text, isSensitive) ==
  /\ last' = Outcome("conditionalEncrypt", text, isSensitive,
                     conditionalEncrypt(text, isSensitive))
  /\ UNCHANGED <<roleOf, entries, logs, env>>

Reveal(text, isSensitive) ==
  /\ last' = Outcome("conditionalDecrypt", text, isSensitive,
                     conditionalDecrypt(text, isSensitive))
  /\ UNCHANGED <<roleOf, entries, logs, env>>

\* conditionalDecrypt(conditionalEncrypt(P, true), true)
RoundTrip(text) ==
  /\ LET stored == conditionalEncrypt(text, TRUE) IN
     last' = Outcome("roundTrip", text, TRUE,
                     IF stored.raised THEN Throw
                     ELSE conditionalDecrypt(stored.value, TRUE))
  /\ UNCHANGED <<roleOf, entries, logs, env>>

InitCrypto ==
  /\ env \in Envs
  /\ roleOf = [u \in Users |-> "member"]
  /\ entries = << >>
  /\ logs = << >>
  /\ last = Response("none", Anonymous, 0, "none", 0, FALSE, NoBody)

NextCrypto ==
  \/ \E text \in CryptoTexts, isSensitive \in BOOLEAN : Protect(text, isSensitive)
  \/ \E text \in CryptoTexts, isSensitive \in BOOLEAN : Reveal(text, isSensitive)
  \/ \E text \in CryptoTexts : RoundTrip(text)

SpecCrypto == InitCrypto /\ [][NextCrypto]_vars

\* maskSensitiveContent on its own: any content up to MaxContentLen.
Mask(content) ==
  /\ last' = [op |-> "maskSensitiveContent", input |-> content,
              output |-> maskSensitiveContent(content)]
  /\ UNCHANGED <<roleOf, entries, logs, env>>

InitMask ==
  /\ env = DeployedEnv
  /\ roleOf = [u \in Users |-> "member"]
  /\ entries = << >>
  /\ logs = << >>
  /\ last = Response("none", Anonymous, 0, "none", 0, FALSE, NoBody)

NextMask == \E content \in Contents : Mask(content)

SpecMask == InitMask /\ [][NextMask]_vars

\* The expiration classifier at its three call sites: one stored entry
\* with any expiration date, the clock read by the call.
ExpiringSites == {"expiring", "cron", "card"}
ExpiringRow(u, expiration) ==
  [user_id |-> u, classification |-> "internal", is_sensitive |-> FALSE,
   content |-> Plain("secret123456"), expiration_date |-> expiration]

Classify(site, e, now) ==
  /\ Present(e)
  /\ LET days == daysUntilExpiration(entries[e].expiration_date, now) IN
     last' = [op |-> "classify", site |-> site, entry |-> e, now |-> now,
              daysUntilExpiration |-> days,
              status |-> IF site = "expiring" THEN expiringStatus(days)
                         ELSE IF site = "cron" THEN cronBucket(days)
                         ELSE getExpirationStatus(days)]
  /\ UNCHANGED <<roleOf, entries, logs, env>>

InitExpiry ==
  /\ env = DeployedEnv
  /\ roleOf = [u \in Users |-> "member"]
  /\ \E e \in EntryIds, expiration \in Expirations :
       entries = e :> ExpiringRow("u1", expiration)
  /\ logs = << >>
  /\ last = Response("none", Anonymous, 0, "none", 0, FALSE, NoBody)

NextExpiry ==
  \E site \in ExpiringSites, e \in EntryIds, now \in Nows : Classify(site, e, now)

SpecExpiry == InitExpiry /\ [][NextExpiry]_vars

\* ------------------------------------------------------------ cron sweep
\* GET /api/cron/check-expiring.  `now` and `futureDate` are two readings
\* of the clock; Elapsed is the time between them in milliseconds.
\* CRON_SECRET is taken to be configured.
HorizonDays == 14
Elapsed == {0, 1}

Dated(e) == "expiration_date" \in DOMAIN entries[e]

\* .not('expiration_date', 'is', null).lte('expiration_date', futureDate)
SweepSelected(futureDate) ==
  {e \in DOMAIN entries : Dated(e) /\ entries[e].expiration_date <= futureDate}

SweepSummary(selected, now) ==
  LET bucket(e) == cronBucket(daysUntilExpiration(entries[e].expiration_date, now))
      count(b) == Cardinality({e \in selected : bucket(e) = b})
  IN [expired |-> count("expired"), critical |-> count("critical"),
      warning |-> count("warning"), total |-> Cardinality(selected)]

SweepAnswer(authorization, now, elapsed, status, summary) ==
  [op |-> "SWEEP", authorization |-> authorization, now |-> now,
   elapsed |-> elapsed, status |-> status, summary |-> summary]

Sweep(authorization, now, elapsed, fault) ==
  /\ UNCHANGED <<roleOf, entries, logs, env>>
  /\ IF authorization # {Bearer(CRON_SECRET)}
     THEN last' = SweepAnswer(authorization, now, elapsed, 401, {})
     ELSE IF fault \in {"fetch", "throw"}
     THEN last' = SweepAnswer(authorization, now, elapsed, 500, {})
     ELSE LET futureDate == now + elapsed + HorizonDays * DayMs
              selected == SweepSelected(futureDate)
          IN last' = SweepAnswer(authorization, now, elapsed, 200,
                                 {SweepSummary(selected, now)})

\* No entry, an entry without an expiration date, or one with any date.
InitSweep ==
  /\ env = DeployedEnv
  /\ roleOf = [u \in Users |-> "member"]
  /\ \/ entries = << >>
     \/ \E e \in EntryIds : entries = e :> Row("u1", "internal", FALSE, Plain("secret123456"))
     \/ \E e \in EntryIds, expiration \in Expirations :
          entries = e :> ExpiringRow("u1", expiration)
  /\ logs = << >>
  /\ last = Response("none", Anonymous, 0, "none", 0, FALSE, NoBody)

NextSweep ==
  \E authorization \in Authorizations, now \in Nows, elapsed \in Elapsed,
     fault \in {"none", "fetch", "throw"} :
    Sweep(authorization, now, elapsed, fault)

SpecSweep == InitSweep /\ [][NextSweep]_vars

\* getAccessStats on its own: any rows in access_logs; the query has no
\* order clause, so the store answers with the entry's rows in any order.
Orders(n) == {p \in [1..n -> 1..n] : \A i, j \in 1..n : p[i] = p[j] => i = j}

GetAccessStats(e, p, error) ==
  /\ LET rows == SelectSeq(logs, LAMBDA r : r.entry_id = e) IN
     /\ p \in Orders(Len(rows))
     /\ last' = [op |-> "getAccessStats", entry |-> e, error |-> error,
                 stats |-> getAccessStats([i \in 1..Len(rows) |-> rows[p[i]]], error)]
  /\ UNCHANGED <<roleOf, entries, logs, env>>

InitStats ==
  /\ env = DeployedEnv
  /\ roleOf = [u \in Users |-> "member"]
  /\ entries = [e \in EntryIds |-> Row("u1", "internal", FALSE, Plain("secret123456"))]
  /\ logs \in UNION {[1..n -> StatRows] : n \in 0..MaxStatRows}
  /\ last = Response("none", Anonymous, 0, "none", 0, FALSE, NoBody)

NextStats ==
  \E e \in EntryIds, n \in 0..MaxStatRows, error \in BOOLEAN :
    \E p \in Orders(n) : GetAccessStats(e, p, error)

SpecStats == InitStats /\ [][NextStats]_vars

\* GET /api/entries/[id]/access.  The e-mail lookup that decorates each row
\* (auth.admin.listUsers) adds a field and changes no decision; it is left out.
\* Faults: "role" the user_roles read fails (getUserRole answers null),
\* "fetch" the entry read fails, "log" the access_logs read returns an
\* error, "throw" it raises.
LogReaders == {"admin", "manager"}

AccessAnswer(u, e, status, data) ==
  [op |-> "ACCESSLOG", user |-> u, entry |-> e, status |-> status, data |-> data]

\* the rows of an entry as `.order('accessed_at', {ascending: false})` may
\* return them: rows of equal time in either order
NewestFirst(rows) ==
  {[i \in 1..Len(rows) |-> rows[p[i]]] :
     p \in {q \in Orders(Len(rows)) :
              \A i, j \in 1..Len(rows) :
                i < j => rows[q[i]].accessed_at >= rows[q[j]].accessed_at}}

AccessLogStats(rows) ==
  [total_accesses |-> Len(rows),
   total_views |-> CountAction(rows, "view"),
   total_updates |-> CountAction(rows, "update"),
   total_deletes |-> CountAction(rows, "delete"),
   total_exports |-> CountAction(rows, "export"),
   unique_users |-> Cardinality({rows[i].accessed_by : i \in 1..Len(rows)} \ {Null}),
   last_accessed_at |-> IF Len(rows) > 0 THEN rows[1].accessed_at ELSE Null]

\* Mutant: the entry is looked up before the role is checked.
ACCESSLOG_EntryFirst(u, e, fault) ==
  /\ UNCHANGED <<roleOf, entries, logs, env>>
  /\ IF u = Anonymous THEN last' = AccessAnswer(u, e, 401, {})
     ELSE IF fault = "fetch" \/ ~Present(e) THEN last' = AccessAnswer(u, e, 404, {})
     ELSE IF fault = "role" \/ getUserRole(u) \notin LogReaders
     THEN last' = AccessAnswer(u, e, 403, {})
     ELSE IF fault \in LogFaults THEN last' = AccessAnswer(u, e, 500, {})
     ELSE \E rows \in NewestFirst(SelectSeq(logs, LAMBDA r : r.entry_id = e)) :
            last' = AccessAnswer(u, e, 200, {[logs |-> rows, stats |-> AccessLogStats(rows)]})

ACCESSLOG(u, e, fault) ==
  /\ UNCHANGED <<roleOf, entries, logs, env>>
  /\ IF u = Anonymous THEN last' = AccessAnswer(u, e, 401, {})
     ELSE IF fault = "role" \/ getUserRole(u) \notin LogReaders
     THEN last' = AccessAnswer(u, e, 403, {})
     ELSE IF fault = "fetch" \/ ~Present(e) THEN last' = AccessAnswer(u, e, 404, {})
     ELSE IF fault \in LogFaults THEN last' = AccessAnswer(u, e, 500, {})
     ELSE \E rows \in NewestFirst(SelectSeq(logs, LAMBDA r : r.entry_id = e)) :
            last' = AccessAnswer(u, e, 200, {[logs |-> rows, stats |-> AccessLogStats(rows)]})

\* Any roles; no entry, or one entry with the records written about it.
InitAccessLog ==
  /\ env = DeployedEnv
  /\ roleOf \in [Users -> StoredRoles]
  /\ \/ entries = << >> /\ logs = << >>
     \/ \E e \in EntryIds :
          /\ entries = e :> Row("u1", "internal", FALSE, Plain("secret123456"))
          /\ logs \in UNION {[1..n -> {r \in StatRows : r.entry_id = e}] : n \in 0..MaxLogs}
  /\ last = Response("none", Anonymous, 0, "none", 0, FALSE, NoBody)

NextAccessLog ==
  \E u \in Requesters, e \in EntryIds, fault \in (Faults \ {"store"}) \cup {"role"} :
    ACCESSLOG(u, e, fault)

SpecAccessLog == InitAccessLog /\ [][NextAccessLog]_vars

\* The routes under any environment: one stored entry, written under
\* the key of an earlier deployment or not encrypted at all.
StoredTexts ==
  {Plain("secret123456"),
   [body |-> "secret123456", layers |-> <<"k1">>],
   [body |-> "secret123456", layers |-> <<FallbackKey>>]}

InitKey ==
  /\ env \in Envs
  /\ roleOf = [u \in Users |-> "member"]
  /\ \E e \in EntryIds, sens \in BOOLEAN, c \in StoredTexts :
       entries = e :> Row("u1", "internal", sens, c)
  /\ logs = << >>
  /\ last = Response("none", Anonymous, 0, "none", 0, FALSE, NoBody)

NextKey ==
  \/ \E u \in Users, e \in EntryIds : GET(u, e, "none")
  \/ \E u \in Users, e \in EntryIds, body \in Bodies, fault \in {"none", "log"} :
        PUT(u, e, body, fault)
  \/ \E u \in Users, e \in EntryIds, format \in Formats, fault \in {"none", "log"} :
        EXPORT(u, e, format, fault)

SpecKey == InitKey /\ [][NextKey]_vars

TypeOK ==
  /\ roleOf \in [Users -> StoredRoles]
  /\ DOMAIN entries \subseteq EntryIds
  /\ \A i \in 1..Len(logs) : logs[i].entry_id \in DOMAIN entries
  /\ Len(logs) <= MaxLogs

\* ================================================================ claims
\* The tables as the specification states them.
VisibleSet ==
  [admin   |-> {"public", "internal", "confidential", "restricted"},
   manager |-> {"public", "internal", "confidential"},
   member  |-> {"public", "internal"},
   viewer  |-> {"public", "internal"}]
CanViewSensitive(r) == r \in {"admin", "manager"}
PolicyActions == {"view", "edit", "delete"}

\* The last step was a checkEntryAccess call on a stored entry.
Checked == last.op = "checkEntryAccess" /\ Present(last.entry)
CheckedOwner == Checked /\ entries[last.entry].user_id = last.user
CheckedNonOwner == Checked /\ entries[last.entry].user_id # last.user

C2_NonOwnerEditOnlyAdmin ==
  (CheckedNonOwner /\ last.action = "edit" /\ last.allow)
    => roleOf[last.user] = "admin"

\* C6: for a non-owner whose role does not see the entry's classification,
\* every action is denied.
C6_InvisibleClassificationDenied ==
  (/\ CheckedNonOwner
   /\ roleOf[last.user] \in UserRoles
   /\ entries[last.entry].classification \notin VisibleSet[roleOf[last.user]])
    => ~last.allow

C6_Witness ==
  /\ CheckedNonOwner /\ last.action = "edit"
  /\ roleOf[last.user] = "manager"
  /\ entries[last.entry].classification = "restricted"
  /\ ~last.allow

C8_FailClosed ==
  (Checked /\ (roleOf[last.user] \notin UserRoles \/ last.action \notin PolicyActions))
    => ~last.allow

\* C3: the single-entry GET and the export return an entry's content to a
\* principal only if the view policy allows that principal the entry.
C3_ContentOnlyIfViewAllowed ==
  (last.op \in {"GET", "EXPORT"} /\ last.status = 200)
    => checkEntryAccess(last.entry, last.user, "view")

\* C4: a PUT changes the stored entry only when the requester is the
\* entry's owner or an admin.
C4_UpdateOnlyByOwnerOrAdmin ==
  [][(last'.op = "PUT" /\ entries' # entries)
       => (\/ entries[last'.entry].user_id = last'.user
           \/ roleOf[last'.user] = "admin")]_vars

\* Steps and states of the DELETE claim.
C5_Removal ==
  \A e \in EntryIds :
    (e \in DOMAIN entries /\ e \notin DOMAIN entries')
      => /\ last'.op = "DELETE" /\ last'.entry = e
         /\ (entries[e].user_id = last'.user \/ roleOf[last'.user] = "admin")
C5_Forbidden ==
  (last'.op = "DELETE") =>
    \A u \in Users, e \in EntryIds, f \in Faults \ {"fetch"} :
      (/\ Present(e) /\ entries[e].user_id # u /\ roleOf[u] # "admin"
       /\ DELETE(u, e, f))
        => (last'.status = 403 /\ entries' = entries)
C5_Policy ==
  \A u \in Users, e \in DOMAIN entries :
    (entries[e].user_id # u /\ checkEntryAccess(e, u, "delete"))
      => roleOf[u] = "admin"
\* C5: an entry is removed only by a DELETE of its owner or of an admin;
\* a DELETE of anyone else on a stored entry the route could read answers
\* 403 and leaves the entry; and checkEntryAccess allows a non-owner
\* 'delete' only for admin.
C5_DeleteOnlyByOwnerOrAdmin ==
  /\ [][C5_Removal]_vars
  /\ [][C5_Forbidden]_vars
  /\ []C5_Policy

C5_Witness ==
  /\ last.op = "DELETE" /\ last.status = 403
  /\ Present(last.entry)
  /\ entries[last.entry].user_id # last.user
  /\ roleOf[last.user] = "manager"

\* C9: no stored entry is owned by a principal whose role is viewer.
C9_NoEntryOwnedByViewer ==
  \A e \in DOMAIN entries : roleOf[entries[e].user_id] # "viewer"

\* C10: the stored content of a sensitive entry is never a plaintext a
\* client submitted.
C10_SensitiveStoredEncrypted ==
  \A e \in DOMAIN entries :
    entries[e].is_sensitive => entries[e].content \notin ClientTexts

\* The process has a key: a configured secret, or the development fallback.
KeyAvailable == getEncryptionKey # KeyError

\* C11: with a key, decrypting what conditionalEncrypt(P, true) returned
\* gives P back, for every P: the empty string, strings of the base64
\* alphabet, and ciphertexts taken as plaintext.
C11_RoundTrip ==
  (last.op = "roundTrip" /\ KeyAvailable)
    => (~last.raised /\ last.output = last.input)

C11_Witness ==
  /\ last.op = "roundTrip" /\ KeyAvailable
  /\ last.input = Plain("QUJDREVGR0hJSktMTU5PUFFSU1RVVldYWVphYmNkZWY=")
  /\ ~last.raised /\ last.output = last.input

\* C12: with isSensitive = false, conditionalEncrypt and conditionalDecrypt
\* return their input unchanged and do not raise, in every environment,
\* the one without a key included.
C12_NonSensitiveIdentity ==
  (last.op \in {"conditionalEncrypt", "conditionalDecrypt"} /\ ~last.sensitive)
    => (~last.raised /\ last.output = last.input)

C12_Witness ==
  /\ last.op = "conditionalEncrypt" /\ ~last.sensitive
  /\ ~KeyAvailable
  /\ last.input = Plain("secret123456")
  /\ ~last.raised /\ last.output = last.input

ShortestMasked == Repeat("a", 9)
MaskRun ==
  SubSeq(maskSensitiveContent(ShortestMasked), 5,
         Len(maskSensitiveContent(ShortestMasked)) - 4)

\* C14: the mask of a content of at most 8 characters is '****'; the mask
\* of a longer one is its first 4 characters, a run of mask characters of
\* one width for every content, and its last 4 characters.
C14_MaskFixedWidth ==
  (last.op = "maskSensitiveContent")
    => IF Len(last.input) <= 8
       THEN last.output = <<"*", "*", "*", "*">>
       ELSE last.output = SubSeq(last.input, 1, 4) \o MaskRun
                            \o SubSeq(last.input, Len(last.input) - 3, Len(last.input))

\* The least number of whole days that covers a span of milliseconds.
CeilDays(ms) ==
  CHOOSE d \in -3..(MaxDays + 3) : d * DayMs >= ms /\ (d - 1) * DayMs < ms
StatusOf(days) ==
  CASE days < 0 -> "expired"
    [] days >= 0 /\ days <= 7 -> "critical"
    [] days >= 8 /\ days <= 14 -> "warning"
    [] days > 14 -> "notice"

C20_PastIsExpired ==
  (last.op = "classify" /\ entries[last.entry].expiration_date < last.now)
    => last.status = "expired"

\* C15: a failed access_logs insert, whether the failure comes back as an
\* error or as an exception, leaves the request a success: the delete
\* removes the entry, the update and the export answer 200.
C15_Step ==
  /\ \A u \in Users, e \in EntryIds, f \in LogFaults :
       (/\ Present(e)
        /\ (entries[e].user_id = u \/ roleOf[u] = "admin")
        /\ DELETE(u, e, f))
         => (last'.status = 200 /\ e \notin DOMAIN entries')
  /\ \A u \in Users, e \in EntryIds, f \in LogFaults, format \in {"json", "txt"} :
       (Present(e) /\ EXPORT(u, e, format, f)) => last'.status = 200
  /\ (last'.op = "PUT" /\ last'.status # 200)
       => ~ \E u \in Users, e \in EntryIds, f \in LogFaults, body \in Bodies :
              Present(e) /\ PUT(u, e, body, f)
C15_LogFailureNeverFailsRequest == [][C15_Step]_vars

\* C16: every successful view, create, update and export, its log insert
\* not failing, appends the record of that entry, principal and action.
\* (The record of a delete leaves with the entry it refers to.)
Logged(e, u, a) == logs' = Append(logs, LogRecord(e, u, a))
C16_Step ==
  /\ \A u \in Users, e \in EntryIds :
       (GET(u, e, "none") /\ last'.status = 200) => Logged(e, u, "view")
  /\ \A u \in Users, c \in ClientTexts, cls \in Classifications, sens \in BOOLEAN :
       (POST(u, c, cls, sens, TRUE, "none") /\ last'.status = 201)
         => Logged(last'.entry, u, "create")
  /\ (last'.op = "PUT" /\ last'.status = 200)
       => \A u \in Users, e \in EntryIds, body \in Bodies :
            PUT(u, e, body, "none") => Logged(e, u, "update")
  /\ \A u \in Users, e \in EntryIds, format \in Formats :
       (EXPORT(u, e, format, "none") /\ last'.status = 200) => Logged(e, u, "export")
C16_EveryAccessLogged == [][C16_Step]_vars

\* The rows of access_logs of the entry the statistics were asked for.
StatsOf(e) == {i \in 1..Len(logs) : logs[i].entry_id = e}
Greatest(S) == CHOOSE x \in S : \A y \in S : y <= x

\* C17: whatever the order of the store's answer, the statistics count the
\* entry's records of each reported action, count its distinct non-null
\* principals, and give the greatest accessed_at as last_accessed_at;
\* with no record, the counts are 0 and last_accessed_at is null.
C17_StatsOfRecords ==
  (last.op = "getAccessStats" /\ ~last.error)
    => LET mine == StatsOf(last.entry)
           count(a) == Cardinality({i \in mine : logs[i].action = a})
       IN /\ last.stats.total_views = count("view")
          /\ last.stats.total_updates = count("update")
          /\ last.stats.total_exports = count("export")
          /\ last.stats.unique_users =
               Cardinality({logs[i].accessed_by : i \in mine} \ {Null})
          /\ last.stats.last_accessed_at =
               IF mine = {} THEN Null
               ELSE Greatest({logs[i].accessed_at : i \in mine})

\* The process runs in production without ENCRYPTION_SECRET_KEY.
SecretMissing == env.production /\ env.secret = NoKey
NeedsKeyToRead(e) ==
  Present(e) /\ entries[e].is_sensitive /\ isEncrypted(entries[e].content)
C18_Write ==
  SecretMissing =>
    \A u \in Users, e \in EntryIds, f \in {"none", "log"}, body \in Bodies :
      (/\ {"content", "is_sensitive"} \subseteq body.has /\ body.is_sensitive
       /\ PUT(u, e, body, f))
        => (last'.status # 200 /\ entries' = entries)
C18_Read ==
  (SecretMissing /\ last.op \in {"GET", "EXPORT"} /\ NeedsKeyToRead(last.entry))
    => last.status # 200
C18_FallbackUnused ==
  SecretMissing =>
    \A e \in DOMAIN entries' :
      (e \in DOMAIN entries /\ entries'[e].content # entries[e].content)
        => \A i \in 1..Len(entries'[e].content.layers) :
             entries'[e].content.layers[i] # FallbackKey
\* C18: in production without a secret, no request that has to encrypt or
\* to decrypt sensitive content answers 200, and nothing is written under
\* the fallback key.
C18_NoSuccessWithoutSecret ==
  /\ [][C18_Write]_vars
  /\ [][C18_FallbackUnused]_vars
  /\ []C18_Read

\* What checkEntryAccess returns for a principal who is not permitted.
DeniedOutcome == FALSE

\* C21: for an entry that is not in the store, checkEntryAccess gives a
\* result other than the one it gives for a principal who is not permitted.
C21_MissingDistinctFromDenied ==
  (last.op = "checkEntryAccess" /\ ~Present(last.entry))
    => last.allow # DeniedOutcome

\* C22: a viewer who is not the owner is denied view of every entry
\* classified internal.
C22_ViewerDeniedInternal ==
  (/\ CheckedNonOwner /\ last.action = "view"
   /\ roleOf[last.user] = "viewer"
   /\ entries[last.entry].classification = "internal")
    => ~last.allow

\* C27: a step that adds an 'export' or 'delete' record to access_logs is
\* a request that answers 200.
C27_Step ==
  (/\ Len(logs') > Len(logs)
   /\ logs'[Len(logs')].action \in {"export", "delete"})
    => last'.status = 200
C27_LogOnlyOnCompletion == [][C27_Step]_vars

\* C28: for a principal with one of the four roles or none, a DELETE that
\* read the entry is refused exactly when
\* checkEntryAccess(entry, principal, 'delete') is deny.
RolesOrNone == UserRoles \cup {NoRole}
C28_Step ==
  (/\ last'.op = "DELETE" /\ last'.status \notin {401, 404}
   /\ roleOf[last'.user] \in RolesOrNone)
    => (last'.status = 403 <=> ~checkEntryAccess(last'.entry, last'.user, "delete"))
C28_DeleteAgreesWithPolicy == [][C28_Step]_vars

\* C30: a single-entry GET that answers 200 returns the plaintext a
\* client submitted for the entry, never text under an encryption layer.
C30_ReadAfterWrite ==
  (last.op = "GET" /\ last.status = 200)
    => last.body[last.entry] \in ClientTexts

\* C29: called with the user's own role and answered by the store,
\* getAccessibleEntries returns exactly the ids of the entries for which
\* checkEntryAccess(entry, user, 'view') is allow, the user's own entries
\* included.
C29_ListAgreesWithGate ==
  (/\ last.op = "getAccessibleEntries" /\ ~last.error
   /\ last.role = getUserRole(last.user))
    => last.ids = {e \in DOMAIN entries : checkEntryAccess(e, last.user, "view")}

\* C25: the access-log endpoint hands out records and statistics only to
\* an admin or a manager; any other authenticated requester is answered
\* 403 with no data, whether or not the entry exists.
C25_LogsOnlyForAdminOrManager ==
  (last.op = "ACCESSLOG") =>
    /\ (last.data # {} => getUserRole(last.user) \in LogReaders)
    /\ (last.user # Anonymous /\ getUserRole(last.user) \notin LogReaders)
         => (last.status = 403 /\ last.data = {})
C25_Witness ==
  /\ last.op = "ACCESSLOG" /\ last.status = 403
  /\ getUserRole(last.user) = "member"
  /\ Present(last.entry) /\ logs # << >>

\* C23: a request without an authenticated user for a path equal to or
\* below /dashboard, /entries or /api is redirected to /auth/login with
\* the path in the redirect parameter, and does not reach the handler.
C23_ProtectedRedirectsToLogin ==
  (/\ last.op = "request" /\ last.user = Anonymous
   /\ matchesRoute(last.path, protectedRoutes))
    => /\ last.kind = "redirect"
       /\ last.location = LoginPath
       /\ last.redirect = {last.path}

\* C24: a request for /api/cron/check-expiring that carries the bearer
\* CRON_SECRET and no user session reaches the sweep handler.
C24_CronReachesHandler ==
  (/\ last.op = "request" /\ last.path = CronPath
   /\ last.user = Anonymous /\ last.authorization = {Bearer(CRON_SECRET)})
    => last.kind = "handler"

\* C26: in the summary of a completed sweep, total equals expired plus
\* critical plus warning: every selected entry is in one of the buckets,
\* whatever time passed between the two readings of the clock.
C26_SweepBucketsPartition ==
  (last.op = "SWEEP" /\ last.status = 200) =>
    \A s \in last.summary : s.total = s.expired + s.critical + s.warning
====
